---- MODULE Spec2Model ----
(***************************************************************************)
(* Model of src/src/lib.rs of mailgun_v3: the EmailAddress value type with *)
(* its parser (TryFrom<&str>), validators and Display formatter, and the   *)
(* Credentials constructors with their four assertions.                    *)
(*                                                                         *)
(* A text (Rust &str / String) is a sequence of characters, each character *)
(* a one-element string; "U+00E9" stands for a character whose UTF-8       *)
(* encoding takes two bytes.  The library is a set of pure functions, so   *)
(* the state machine is one caller: Init draws a call and its arguments,   *)
(* the actions perform the call and then use the value it returned.        *)
(***************************************************************************)
EXTENDS Integers, Sequences, FiniteSets

VARIABLES call, pc, result, value, text, got, reparsed, cred, dom

vars == <<call, pc, result, value, text, got, reparsed, cred, dom>>

----------------------------------------------------------------------------
(* Bounds of the input domains *)

MaxTokens == 4        \* tokens in a text handed to try_from / address
MaxNameTokens == 2    \* tokens in the name handed to name_address
MaxAddrTokens == 1    \* tokens in the address handed to name_address
MaxBaseTokens == 2    \* tokens in an api_base
MaxDomainLen == 2     \* characters in a sending domain
KeySlack == 2         \* key lengths range over MinKeyLen -/+ KeySlack
MaxWide == 2          \* two-byte characters in an api_key

----------------------------------------------------------------------------
(* Texts *)

LF == "\n"
Wide == "U+00E9"

Sub(s, i, j) == IF i > j THEN <<>> ELSE SubSeq(s, i, j)

Max(S) == CHOOSE m \in S : \A n \in S : n <= m

\* the concatenations of exactly n, and of at most n, tokens of T
RECURSIVE Exactly(_, _)
Exactly(T, n) == IF n = 0 THEN {<<>>} ELSE {s \o t : s \in Exactly(T, n - 1), t \in T}

TokenSeqs(T, n) == UNION {Exactly(T, k) : k \in 0..n}

RECURSIVE Repeat(_, _)
Repeat(c, n) == IF n <= 0 THEN <<>> ELSE <<c>> \o Repeat(c, n - 1)

\* Option<String>
None == [some |-> FALSE, str |-> <<>>]
Some(s) == [some |-> TRUE, str |-> s]

----------------------------------------------------------------------------
(* str primitives used by the code *)

\* bytes of one char in UTF-8
len_utf8(c) == IF c = Wide THEN 2 ELSE 1

\* str::len(): the length in bytes
RECURSIVE len(_)
len(s) == IF s = <<>> THEN 0 ELSE len_utf8(Head(s)) + len(Tail(s))

\* str::starts_with
starts_with(s, p) == Len(s) >= Len(p) /\ SubSeq(s, 1, Len(p)) = p

\* s.chars().filter(|c| *c == ch).count()
count_char(s, ch) == Cardinality({i \in 1..Len(s) : s[i] = ch})

\* a regex piece [^...]+ matched against the whole of s
OneOrMoreExcluding(s, X) == Len(s) >= 1 /\ \A i \in 1..Len(s) : s[i] \notin X

\* a regex piece .* matched against the whole of s: . is any character but \n
AnyButNewline(s) == \A i \in 1..Len(s) : s[i] # LF

----------------------------------------------------------------------------
(* EmailAddress *)

\* EmailAddress::address
address(a) == [name |-> None, address |-> a]

\* EmailAddress::name_address
name_address(n, a) == [name |-> Some(n), address |-> a]

\* EmailAddress::email
email(x) == x.address

\* impl Display: "{} <{}>" with a name, "{}" without
to_string_nospace(x) ==
    IF x.name.some THEN x.name.str \o <<"<">> \o x.address \o <<">">>
    ELSE x.address
to_string(x) ==
    IF x.name.some THEN x.name.str \o <<" ", "<">> \o x.address \o <<">">>
    ELSE x.address

\* ^[^<>]+$
is_valid_display_name_nospace(name) == OneOrMoreExcluding(name, {"<", ">", " "})
is_valid_display_name(name) == OneOrMoreExcluding(name, {"<", ">"})

\* ^[^<> ]+@[^<> ]+\.[^<> ]+$
is_valid_address_nodot(a) ==
    \E i \in 1..Len(a) :
        /\ a[i] = "@"
        /\ OneOrMoreExcluding(Sub(a, 1, i - 1), {"<", ">", " "})
        /\ OneOrMoreExcluding(Sub(a, i + 1, Len(a)), {"<", ">", " "})
is_valid_address_one_at(a) ==
    \E i \in 1..Len(a), j \in 1..Len(a) :
        /\ a[i] = "@"
        /\ a[j] = "."
        /\ OneOrMoreExcluding(Sub(a, 1, i - 1), {"<", ">", " ", "@"})
        /\ OneOrMoreExcluding(Sub(a, i + 1, j - 1), {"<", ">", " ", "@"})
        /\ OneOrMoreExcluding(Sub(a, j + 1, Len(a)), {"<", ">", " ", "@"})
is_valid_address(a) ==
    \E i \in 1..Len(a), j \in 1..Len(a) :
        /\ a[i] = "@"
        /\ a[j] = "."
        /\ OneOrMoreExcluding(Sub(a, 1, i - 1), {"<", ">", " "})
        /\ OneOrMoreExcluding(Sub(a, i + 1, j - 1), {"<", ">", " "})
        /\ OneOrMoreExcluding(Sub(a, j + 1, Len(a)), {"<", ">", " "})

\* The ways ^(.*) <([^>]+)>$ matches input: k is the length of group 1.
RE_splits(input) ==
    {k \in 0..(Len(input) - 4) :
        /\ AnyButNewline(Sub(input, 1, k))
        /\ input[k + 1] = " "
        /\ input[k + 2] = "<"
        /\ OneOrMoreExcluding(Sub(input, k + 3, Len(input) - 1), {">"})
        /\ input[Len(input)] = ">"}

\* the same with ([^>]*) for group 2
RE_splits_star(input) ==
    {k \in 0..(Len(input) - 3) :
        /\ AnyButNewline(Sub(input, 1, k))
        /\ input[k + 1] = " "
        /\ input[k + 2] = "<"
        /\ \A i \in (k + 3)..(Len(input) - 1) : input[i] # ">"
        /\ input[Len(input)] = ">"}

\* RE.captures(input): (.*) is greedy, so group 1 is the longest that matches.
\* n is captures.len(): group 0 and the two groups of the pattern.
RE_captures_star(input) ==
    IF RE_splits_star(input) = {} THEN [matched |-> FALSE, n |-> 0, g1 |-> <<>>, g2 |-> <<>>]
    ELSE LET k == Max(RE_splits_star(input)) IN
         [matched |-> TRUE, n |-> 3,
          g1 |-> Sub(input, 1, k), g2 |-> Sub(input, k + 3, Len(input) - 1)]
RE_captures(input) ==
    IF RE_splits(input) = {} THEN [matched |-> FALSE, n |-> 0, g1 |-> <<>>, g2 |-> <<>>]
    ELSE LET k == Max(RE_splits(input)) IN
         [matched |-> TRUE, n |-> 3,
          g1 |-> Sub(input, 1, k), g2 |-> Sub(input, k + 3, Len(input) - 1)]

\* try_from, lines 135-147: the candidate and the branch that built it
candidate(input) ==
    LET captures == RE_captures(input) IN
    IF captures.matched
    THEN IF captures.n = 3
         THEN [branch |-> "name_address", x |-> name_address(captures.g1, captures.g2)]
         ELSE [branch |-> "address", x |-> address(input)]
    ELSE [branch |-> "address", x |-> address(input)]

Ok(x) == [ok |-> TRUE, err |-> "", value |-> x]
Err(e) == [ok |-> FALSE, err |-> e, value |-> address(<<>>)]

\* try_from, lines 149-159: the name is checked first, then the address
try_from_address_first(input) ==
    LET r == candidate(input).x IN
    IF ~is_valid_address(r.address) THEN Err("Invalid email address")
    ELSE IF r.name.some /\ ~is_valid_display_name(r.name.str)
    THEN Err("Invalid display name")
    ELSE Ok(r)
try_from_no_name_check(input) ==
    LET r == candidate(input).x IN
    IF ~is_valid_address(r.address) THEN Err("Invalid email address")
    ELSE Ok(r)
try_from(input) ==
    LET r == candidate(input).x IN
    IF r.name.some /\ ~is_valid_display_name(r.name.str)
    THEN Err("Invalid display name")
    ELSE IF ~is_valid_address(r.address) THEN Err("Invalid email address")
    ELSE Ok(r)

----------------------------------------------------------------------------
(* Credentials *)

\* MAILGUN_DEFAULT_API = "https://api.mailgun.net/v3"
MAILGUN_DEFAULT_API ==
    <<"h", "t", "t", "p", "s", ":", "/", "/", "a", "p", "i", ".", "m", "a", "i",
      "l", "g", "u", "n", ".", "n", "e", "t", "/", "v", "3">>

\* the least api_key.len() the assertion of line 53 lets through
MinKeyLen == 35

Built(b, k, d) ==
    [built |-> TRUE, panic |-> "", c |-> [api_base |-> b, api_key |-> k, domain |-> d]]
Panic(msg) ==
    [built |-> FALSE, panic |-> msg, c |-> [api_base |-> <<>>, api_key |-> <<>>, domain |-> <<>>]]

\* Credentials::with_base: four assert!s in order, each a panic with its message
\* (with_base_key_first asserts the key length first; with_base_chars counts the
\* key's characters instead of its bytes)
with_base_key_first(api_base, api_key, domain) ==
    IF ~(len(api_key) >= MinKeyLen) THEN Panic("api_key is to short")
    ELSE IF ~starts_with(api_base, <<"h", "t", "t", "p">>)
    THEN Panic("Domain does not start with http")
    ELSE IF ~(count_char(api_base, ".") >= 1)
    THEN Panic("api_base does not contain any dots")
    ELSE IF ~(count_char(domain, ".") >= 1)
    THEN Panic("Domain does not contain any dots")
    ELSE Built(api_base, api_key, domain)
with_base_chars(api_base, api_key, domain) ==
    IF ~starts_with(api_base, <<"h", "t", "t", "p">>)
    THEN Panic("Domain does not start with http")
    ELSE IF ~(count_char(api_base, ".") >= 1)
    THEN Panic("api_base does not contain any dots")
    ELSE IF ~(Len(api_key) >= MinKeyLen) THEN Panic("api_key is to short")
    ELSE IF ~(count_char(domain, ".") >= 1)
    THEN Panic("Domain does not contain any dots")
    ELSE Built(api_base, api_key, domain)
with_base(api_base, api_key, domain) ==
    IF ~starts_with(api_base, <<"h", "t", "t", "p">>)
    THEN Panic("Domain does not start with http")
    ELSE IF ~(count_char(api_base, ".") >= 1)
    THEN Panic("api_base does not contain any dots")
    ELSE IF ~(len(api_key) >= MinKeyLen) THEN Panic("api_key is to short")
    ELSE IF ~(count_char(domain, ".") >= 1)
    THEN Panic("Domain does not contain any dots")
    ELSE Built(api_base, api_key, domain)

\* Credentials::new
new(api_key, domain) == with_base(MAILGUN_DEFAULT_API, api_key, domain)

\* Credentials::domain
domain(c) == c.domain

----------------------------------------------------------------------------
(* The caller: one call drawn from bounded argument sets *)

Tokens ==
    {<<"a">>, <<"@">>, <<".">>, <<"<">>, <<">">>, <<" ">>, <<LF>>,
     <<" ", "<">>, <<"a", "@", "a", ".", "a">>}

\* texts handed to try_from and to address
ParseInputs == {b \o c : b \in TokenSeqs(Tokens, MaxTokens), c \in {<<>>, <<">">>}}

\* arguments of name_address
NameArgs == TokenSeqs(Tokens, MaxNameTokens)
AddrArgs == TokenSeqs(Tokens, MaxAddrTokens)

BaseTokens ==
    {<<"h", "t", "t", "p">>, <<"h", "t", "t">>, <<"f", "t", "p">>, <<".">>, <<"x">>}
Bases == TokenSeqs(BaseTokens, MaxBaseTokens)

\* a key of n characters, the last w of them two bytes wide
Key(n, w) ==
    LET m == IF w < n THEN w ELSE n IN Repeat("k", n - m) \o Repeat(Wide, m)
Keys ==
    {Key(n, w) : n \in {0} \cup ((MinKeyLen - KeySlack)..(MinKeyLen + KeySlack)),
                 w \in 0..MaxWide}

Domains == TokenSeqs({<<"x">>, <<".">>}, MaxDomainLen)

Call(fn, n, t, b, k, d) ==
    [fn |-> fn, name |-> n, text |-> t, api_base |-> b, api_key |-> k, domain |-> d]

\* the calls the caller may make
IsCall(c) ==
    \/ \E t \in ParseInputs : c = Call("try_from", <<>>, t, <<>>, <<>>, <<>>)
    \/ \E t \in ParseInputs : c = Call("address", <<>>, t, <<>>, <<>>, <<>>)
    \/ \E n \in NameArgs, t \in AddrArgs : c = Call("name_address", n, t, <<>>, <<>>, <<>>)
    \/ \E b \in Bases, k \in Keys, d \in Domains : c = Call("with_base", <<>>, <<>>, b, k, d)
    \/ \E k \in Keys, d \in Domains : c = Call("new", <<>>, <<>>, <<>>, k, d)

NoResult == [ok |-> FALSE, err |-> "none", value |-> address(<<>>)]
NoValue == [some |-> FALSE, x |-> address(<<>>)]
NoCred == Panic("none")

Init ==
    /\ IsCall(call)
    /\ pc = "start"
    /\ result = NoResult
    /\ value = NoValue
    /\ text = None
    /\ got = None
    /\ reparsed = NoResult
    /\ cred = NoCred
    /\ dom = None

\* EmailAddress::try_from(call.text)
TryFrom ==
    /\ pc = "start"
    /\ call.fn = "try_from"
    /\ result' = try_from(call.text)
    /\ value' = IF result'.ok THEN [some |-> TRUE, x |-> result'.value] ELSE NoValue
    /\ pc' = "returned"
    /\ UNCHANGED <<call, text, got, reparsed, cred, dom>>

\* EmailAddress::address(call.text)
Address ==
    /\ pc = "start"
    /\ call.fn = "address"
    /\ value' = [some |-> TRUE, x |-> address(call.text)]
    /\ pc' = "returned"
    /\ UNCHANGED <<call, result, text, got, reparsed, cred, dom>>

\* EmailAddress::name_address(call.name, call.text)
NameAddress ==
    /\ pc = "start"
    /\ call.fn = "name_address"
    /\ value' = [some |-> TRUE, x |-> name_address(call.name, call.text)]
    /\ pc' = "returned"
    /\ UNCHANGED <<call, result, text, got, reparsed, cred, dom>>

\* value.to_string()
Display ==
    /\ value.some
    /\ ~text.some
    /\ text' = Some(to_string(value.x))
    /\ UNCHANGED <<call, pc, result, value, got, reparsed, cred, dom>>

\* value.email()
Email ==
    /\ value.some
    /\ ~got.some
    /\ got' = Some(email(value.x))
    /\ UNCHANGED <<call, pc, result, value, text, reparsed, cred, dom>>

\* EmailAddress::try_from(&value.to_string())
Reparse ==
    /\ text.some
    /\ reparsed = NoResult
    /\ reparsed' = try_from(text.str)
    /\ UNCHANGED <<call, pc, result, value, text, got, cred, dom>>

\* Credentials::with_base(call.api_base, call.api_key, call.domain)
WithBase ==
    /\ pc = "start"
    /\ call.fn = "with_base"
    /\ cred' = with_base(call.api_base, call.api_key, call.domain)
    /\ pc' = "returned"
    /\ UNCHANGED <<call, result, value, text, got, reparsed, dom>>

\* Credentials::new(call.api_key, call.domain)
New ==
    /\ pc = "start"
    /\ call.fn = "new"
    /\ cred' = new(call.api_key, call.domain)
    /\ pc' = "returned"
    /\ UNCHANGED <<call, result, value, text, got, reparsed, dom>>

\* cred.domain()
Domain ==
    /\ cred.built
    /\ ~dom.some
    /\ dom' = Some(domain(cred.c))
    /\ UNCHANGED <<call, pc, result, value, text, got, reparsed, cred>>

Next ==
    \/ TryFrom
    \/ Address
    \/ NameAddress
    \/ Display
    \/ Email
    \/ Reparse
    \/ WithBase
    \/ New
    \/ Domain

Spec == Init /\ [][Next]_vars

----------------------------------------------------------------------------
(* Vocabulary of the properties, stated on texts without the code's matchers *)

HasChar(s, c) == \E i \in 1..Len(s) : s[i] = c
NoAngle(s) == ~HasChar(s, "<") /\ ~HasChar(s, ">")
NoAngleOrSpace(s) == NoAngle(s) /\ ~HasChar(s, " ")
Plain(s) == s # <<>> /\ NoAngleOrSpace(s)

\* local@domain.tld, the three parts non-empty and free of '<', '>' and space
WellFormedAddress(a) ==
    \E p \in 1..Len(a), q \in 1..Len(a) :
        /\ p + q + 3 <= Len(a)
        /\ Plain(SubSeq(a, 1, p))
        /\ a[p + 1] = "@"
        /\ Plain(SubSeq(a, p + 2, p + q + 1))
        /\ a[p + q + 2] = "."
        /\ Plain(SubSeq(a, p + q + 3, Len(a)))

\* s read as name + " <" + body + ">" with a name of k characters
SplitAt(s, k) ==
    /\ k + 3 <= Len(s)
    /\ s[k + 1] = " "
    /\ s[k + 2] = "<"
    /\ s[Len(s)] = ">"
NamePart(s, k) == Sub(s, 1, k)
BodyPart(s, k) == Sub(s, k + 3, Len(s) - 1)

\* name + " <" + one-or-more non-'>' characters + ">", the name any text
MatchesShape(s) ==
    \E k \in 0..Len(s) :
        SplitAt(s, k) /\ BodyPart(s, k) # <<>> /\ ~HasChar(BodyPart(s, k), ">")

\* the text after the first '@' holds no '.', or there is no '@'
DomainHasNoDot(s) ==
    \A i \in 1..Len(s) :
        (s[i] = "@" /\ ~HasChar(Sub(s, 1, i - 1), "@")) => ~HasChar(Sub(s, i + 1, Len(s)), ".")

\* the data-model invariant of an EmailAddress
ModelInvariant(x) ==
    /\ x.name.some => NoAngle(x.name.str)
    /\ \E i \in 1..Len(x.address) :
        /\ x.address[i] = "@"
        /\ Plain(Sub(x.address, 1, i - 1))
        /\ Plain(Sub(x.address, i + 1, Len(x.address)))
        /\ HasChar(Sub(x.address, i + 1, Len(x.address)), ".")

Parsed == call.fn = "try_from" /\ pc = "returned"
Constructed == call.fn \in {"with_base", "new"} /\ pc = "returned"

\* every accepted input of the input domain with the value it parses to
AcceptedInputs ==
    {[input |-> t, value |-> try_from(t).value] : t \in {u \in ParseInputs : try_from(u).ok}}

\* length of a text in UTF-8 bytes
Utf8Bytes(s) == Len(s) + Cardinality({i \in 1..Len(s) : s[i] = Wide})

----------------------------------------------------------------------------
(* C1 *)

\* C1 as stated: every value built by address, name_address or try_from whose
\* name (if present) has no '<' or '>' is given back by parsing its Display text.
C1_RoundTripAnyConstructed ==
    (reparsed # NoResult /\ (value.x.name.some => NoAngle(value.x.name.str)))
        => reparsed = Ok(value.x)

\* C1, amended: the round trip try_from(x.to_string()) == Ok(x) holds for every x
\* returned by a successful try_from, and for every x built by address or
\* name_address whose address is well-formed and whose name (if present) is
\* non-empty and has no '<', '>' or line feed.
C1_RoundTripValidated ==
    (/\ reparsed # NoResult
     /\ \/ call.fn = "try_from"
        \/ /\ WellFormedAddress(value.x.address)
           /\ value.x.name.some =>
                /\ value.x.name.str # <<>>
                /\ NoAngle(value.x.name.str)
                /\ ~HasChar(value.x.name.str, LF))
        => reparsed = Ok(value.x)

C1_Witness ==
    /\ call.fn = "name_address"
    /\ WellFormedAddress(value.x.address)
    /\ HasChar(value.x.name.str, " ")
    /\ reparsed = Ok(value.x)

----------------------------------------------------------------------------
(* C2 *)

\* C2 as stated: name + " <" + address + ">" with a name free of '<' and '>' and
\* a well-formed address parses to Some(name) and address, and Display gives
\* the input back.
C2_NameAddressParsesAnyName ==
    Parsed =>
        \A k \in 0..Len(call.text) :
            (/\ SplitAt(call.text, k)
             /\ NoAngle(NamePart(call.text, k))
             /\ WellFormedAddress(BodyPart(call.text, k)))
                => /\ result = Ok(name_address(NamePart(call.text, k), BodyPart(call.text, k)))
                   /\ text.some => text.str = call.text

\* C2, amended: the same for a name that is non-empty and has no '<', '>' or
\* line feed.
C2_NameAddressParses ==
    Parsed =>
        \A k \in 0..Len(call.text) :
            (/\ SplitAt(call.text, k)
             /\ NamePart(call.text, k) # <<>>
             /\ NoAngle(NamePart(call.text, k))
             /\ ~HasChar(NamePart(call.text, k), LF)
             /\ WellFormedAddress(BodyPart(call.text, k)))
                => /\ result = Ok(name_address(NamePart(call.text, k), BodyPart(call.text, k)))
                   /\ text.some => text.str = call.text

C2_Witness ==
    /\ Parsed
    /\ text.some
    /\ \E k \in 1..Len(call.text) :
        /\ SplitAt(call.text, k)
        /\ NoAngle(NamePart(call.text, k))
        /\ ~HasChar(NamePart(call.text, k), LF)
        /\ WellFormedAddress(BodyPart(call.text, k))
        /\ result = Ok(name_address(NamePart(call.text, k), BodyPart(call.text, k)))

----------------------------------------------------------------------------
(* C3 *)

\* C3 as stated: an input whose domain part has no '.' fails, and always with
\* "Invalid email address".
C3_NoDotInvalidAddress ==
    (Parsed /\ DomainHasNoDot(call.text))
        => ~result.ok /\ result.err = "Invalid email address"

\* C3, amended: an input whose domain part (the text after its first '@', or
\* the lack of any '@') has no '.' fails; the error is "Invalid email address",
\* except that an input matching the name+address pattern with a captured name
\* that is empty or holds '<' or '>' fails with "Invalid display name".
C3_NoDotFails ==
    (Parsed /\ DomainHasNoDot(call.text))
        => /\ ~result.ok
           /\ result.err =
                IF /\ candidate(call.text).branch = "name_address"
                   /\ LET n == candidate(call.text).x.name.str IN n = <<>> \/ ~NoAngle(n)
                THEN "Invalid display name"
                ELSE "Invalid email address"

C3_Witness ==
    /\ Parsed
    /\ DomainHasNoDot(call.text)
    /\ HasChar(call.text, "@")
    /\ result.err = "Invalid email address"

----------------------------------------------------------------------------
(* C4 *)

\* C4: a well-formed bare address parses with no name, through the
\* address-only branch, and email() and Display both give it back unchanged.
C4_BareAddress ==
    (Parsed /\ WellFormedAddress(call.text))
        => /\ result = Ok(address(call.text))
           /\ candidate(call.text).branch = "address"
           /\ ~RE_captures(call.text).matched
           /\ got.some => got.str = call.text
           /\ text.some => text.str = call.text

C4_Witness ==
    /\ Parsed
    /\ WellFormedAddress(call.text)
    /\ got = Some(call.text)
    /\ text = Some(call.text)

----------------------------------------------------------------------------
(* C5 *)

\* C5 as stated: every EmailAddress that exists, whichever constructor made it,
\* satisfies the data-model invariant.
C5_InvariantOfEveryValue == value.some => ModelInvariant(value.x)

\* C5, amended: every EmailAddress returned by a successful try_from satisfies
\* the data-model invariant; address and name_address store their arguments
\* unchecked.
C5_InvariantOfParsed ==
    (value.some /\ call.fn = "try_from") => ModelInvariant(value.x)

C5_Witness ==
    /\ value.some
    /\ call.fn = "try_from"
    /\ value.x.name.some
    /\ ModelInvariant(value.x)

----------------------------------------------------------------------------
(* C6 *)

\* C6: with_base runs the four checks in order and aborts on the first that
\* fails, else stores the three strings verbatim; new is with_base on the
\* default base and so aborts only on the key or the domain check.
C6_FirstFailingCheck ==
    Constructed =>
        LET b == IF call.fn = "new" THEN MAILGUN_DEFAULT_API ELSE call.api_base
            k == call.api_key
            d == call.domain
        IN /\ cred =
                IF ~(Len(b) >= 4 /\ <<b[1], b[2], b[3], b[4]>> = <<"h", "t", "t", "p">>)
                THEN Panic("Domain does not start with http")
                ELSE IF ~HasChar(b, ".") THEN Panic("api_base does not contain any dots")
                ELSE IF Utf8Bytes(k) < 35 THEN Panic("api_key is to short")
                ELSE IF ~HasChar(d, ".") THEN Panic("Domain does not contain any dots")
                ELSE Built(b, k, d)
           /\ call.fn = "new" =>
                cred.panic \in {"", "api_key is to short", "Domain does not contain any dots"}
           /\ dom.some => dom.str = d

C6_Witness ==
    /\ Constructed
    /\ call.fn = "with_base"
    /\ cred.built
    /\ dom = Some(call.domain)

----------------------------------------------------------------------------
(* C7 *)

\* C7 as stated: a key is accepted exactly when its length in characters is at
\* least 35: fewer characters abort construction, 35 or more pass the key check.
C7_KeyLengthInCharacters ==
    Constructed =>
        /\ Len(call.api_key) < 35 => ~cred.built
        /\ Len(call.api_key) >= 35 => cred.panic # "api_key is to short"

\* C7, amended: a key is accepted exactly when its length in UTF-8 bytes is at
\* least 35: fewer bytes abort construction, 35 or more bytes pass the key
\* check, so a key of fewer than 35 characters passes when two-byte characters
\* bring it to 35 bytes.
C7_KeyLengthInBytes ==
    Constructed =>
        /\ Utf8Bytes(call.api_key) < 35 => ~cred.built
        /\ Utf8Bytes(call.api_key) >= 35 => cred.panic # "api_key is to short"
        /\ (Utf8Bytes(call.api_key) < 35 /\ call.fn = "new") =>
                cred.panic = "api_key is to short"

C7_Witness ==
    /\ Constructed
    /\ Len(call.api_key) < 35
    /\ Utf8Bytes(call.api_key) >= 35
    /\ cred.built

----------------------------------------------------------------------------
(* C8 *)

\* C8: try_from ends Ok, "Invalid display name" or "Invalid email address"; an
\* input that does not match the name+address pattern is taken whole as a bare
\* address and ends Ok or "Invalid email address"; "Invalid display name" comes
\* only from a matched input whose captured name is empty or holds '<' or '>'.
C8_Outcomes ==
    Parsed =>
        /\ result.ok \/ result.err \in {"Invalid display name", "Invalid email address"}
        /\ ~MatchesShape(call.text) =>
                /\ candidate(call.text) = [branch |-> "address", x |-> address(call.text)]
                /\ result.ok \/ result.err = "Invalid email address"
                /\ result.ok => result.value = address(call.text)
        /\ result.err = "Invalid display name" =>
                /\ MatchesShape(call.text)
                /\ candidate(call.text).branch = "name_address"
                /\ LET n == candidate(call.text).x.name.str IN n = <<>> \/ ~NoAngle(n)

C8_Witness ==
    /\ Parsed
    /\ result.err = "Invalid display name"
    /\ candidate(call.text).x.name.str = <<>>

----------------------------------------------------------------------------
(* C9 *)

NameValid(n) == n # <<>> /\ NoAngle(n)

\* for a matched input: the name is checked before the address
NameCheckedFirst ==
    LET c == candidate(call.text).x IN
    /\ (~NameValid(c.name.str) /\ ~WellFormedAddress(c.address))
            => result.err = "Invalid display name"
    /\ result.err = "Invalid email address" => NameValid(c.name.str)

\* C9 as stated: for a matched input the name is checked first, and the
\* captured name is everything before the last " <" that is followed by no '>'
\* until the final character.
C9_OrderAndLastOpening ==
    (Parsed /\ RE_captures(call.text).matched) =>
        /\ NameCheckedFirst
        /\ LET K == {k \in 0..Len(call.text) :
                        SplitAt(call.text, k) /\ ~HasChar(BodyPart(call.text, k), ">")}
           IN candidate(call.text).x.name.str = NamePart(call.text, Max(K))

\* C9, amended: for a matched input the name is checked first, and the
\* captured name is everything before the last " <" that is preceded by no
\* line feed and followed by at least one character and no '>' until the final
\* character.
C9_OrderAndGreedyName ==
    (Parsed /\ RE_captures(call.text).matched) =>
        /\ NameCheckedFirst
        /\ LET K == {k \in 0..Len(call.text) :
                        /\ SplitAt(call.text, k)
                        /\ ~HasChar(NamePart(call.text, k), LF)
                        /\ BodyPart(call.text, k) # <<>>
                        /\ ~HasChar(BodyPart(call.text, k), ">")}
           IN candidate(call.text).x =
                name_address(NamePart(call.text, Max(K)), BodyPart(call.text, Max(K)))

C9_Witness ==
    /\ Parsed
    /\ RE_captures(call.text).matched
    /\ Cardinality(RE_splits(call.text)) >= 2
    /\ ~NameValid(candidate(call.text).x.name.str)
    /\ ~WellFormedAddress(candidate(call.text).x.address)
    /\ result.err = "Invalid display name"

----------------------------------------------------------------------------
(* C10 *)

\* C10: an accepted input is reproduced by Display, its address is well-formed,
\* its name (if present) is non-empty without '<' or '>', and no other input
\* parses to the same value.
C10_AcceptedReproduced ==
    (Parsed /\ result.ok) =>
        /\ text.some => text.str = call.text
        /\ WellFormedAddress(result.value.address)
        /\ result.value.name.some => NameValid(result.value.name.str)
        /\ \A p \in AcceptedInputs : p.value = result.value => p.input = call.text

C10_Witness ==
    /\ Parsed
    /\ result.ok
    /\ result.value.name.some
    /\ text = Some(call.text)

====
